---- MODULE Spec2Model ----
(***************************************************************************)
(* Model of the forex data pipeline:                                       *)
(*   src/src/data_collection.py     fetch_live_data (paged candle fetch)   *)
(*   src/src/data_preprocessing.py  clean_data, add_indicators, add_target *)
(*                                                                         *)
(* A DataFrame is a sequence of rows (records), in index order.  A missing *)
(* value is NaN, an absent end boundary is None.  Timestamps are integers  *)
(* standing for the instants the provider's time strings denote; prices    *)
(* are integers standing for the floats they parse to.                     *)
(***************************************************************************)
EXTENDS Integers, Sequences, FiniteSets, TLC

VARIABLES
    pc,         \* position of fetch_live_data: "loop", "break", "done"; "idle" when not called
    candles,    \* the argument `candles` of fetch_live_data
    remaining,  \* local `remaining`
    to_time,    \* local `to_time` (None or the boundary of the next request)
    all_data,   \* local `all_data`: the list of per-page DataFrames
    requests,   \* every request issued so far, with the provider's answer to it
    df_all,     \* the DataFrame returned by fetch_live_data
    failed,     \* the except clause (lines 87-89) ran
    calls,      \* number of calls made to the pipeline stage under study
    df_in,      \* argument of the latest pipeline call
    df_mid,     \* clean_data: the frame after line 17 (sorted, de-duplicated)
    df_out      \* result of the latest pipeline call

fetchVars == <<pc, candles, remaining, to_time, all_data, requests, df_all, failed>>
pipeVars == <<calls, df_in, df_mid, df_out>>
vars == <<pc, candles, remaining, to_time, all_data, requests, df_all, failed,
          calls, df_in, df_mid, df_out>>

\* Python's None (an absent value) and a present value
None == <<>>
Some(x) == <<x>>

\* A float is NaN or a number: <<x>> is the float of value x
NaN == <<>>
Float(x) == <<x>>
IsNaN(v) == v = NaN

(***************************************************************************)
(* Bounds of the model.                                                    *)
(***************************************************************************)
\* longest explicitly enumerated provider response
MaxResp == 2
\* provider timestamps of enumerated responses are 1..MaxTime
MaxTime == 2
\* cap on the request log (never reached by the code: see C9)
MaxRequests == 4
\* clean_data: timestamps 1..MaxStamp, frames of at most MaxRows rows,
\* cleaned at most MaxCalls times in a row
MaxStamp == 3
MaxRows == 3
MaxCalls == 2
\* add_target: closes 1..MaxCloseValue or NaN, frames of at most MaxTargetRows rows
MaxCloseValue == 4
MaxTargetRows == 3
\* add_indicators: frames of 50 - MaxExtra .. 50 + MaxExtra rows, whose closes
\* are 1 + step * (i % period), step <= MaxStep, period <= MaxPeriod
MaxExtra == 2
MaxStep == 2
MaxPeriod == 3

\* the mid close prices of enumerated candles
Prices == {1, 2}

Min(a, b) == IF a <= b THEN a ELSE b

(***************************************************************************)
(* fetch_live_data, src/src/data_collection.py                             *)
(***************************************************************************)
\* line 42: the provider's page limit
PageLimit == 5000

\* (mutant: every request asks for a whole page)
batch_size_whole_page(rem) == PageLimit

\* (mutant: the page limit is not applied)
batch_size_uncapped(rem) == rem

\* line 42: batch_size = min(remaining, 5000)
batch_size(rem) == Min(rem, PageLimit)

\* lines 60-70: the page's DataFrame holds one row per complete candle
to_row(c) == [timestamp |-> c.time, close |-> Float(c.mid_c)]

IsComplete(c) == c.complete

to_frame(data) ==
    LET kept == SelectSeq(data, IsComplete)
    IN  [i \in 1..Len(kept) |-> to_row(kept[i])]

\* (mutant: the boundary is the latest timestamp of the page)
next_to_time_latest(data) == Some(data[Len(data)].time)

\* line 75: to_time = data[0]["time"]
next_to_time(data) == Some(data[1].time)

\* (mutant: the remaining count is not reduced)
next_remaining_stuck(rem, b) == rem

\* line 76: remaining -= batch_size
next_remaining(rem, b) == rem - b

\* line 79: pd.concat(all_data, ignore_index=True)
RECURSIVE concat(_)
concat(frames) ==
    IF frames = <<>> THEN <<>>
    ELSE concat(SubSeq(frames, 1, Len(frames) - 1)) \o frames[Len(frames)]

\* line 81: df_all.sort_values("timestamp"): the rows in ascending timestamp
\* order.  SortByTimestamp is the arrangement that keeps the input order of
\* rows with equal timestamps; sort_values (default kind "quicksort", which
\* is not a stable sort) may return any arrangement of such rows.
RECURSIVE LowerCount(_, _, _, _)
LowerCount(s, t, lo, hi) ==
    IF lo > hi THEN lo - 1
    ELSE LET mid == (lo + hi) \div 2
         IN  IF s[mid].timestamp < t
             THEN LowerCount(s, t, mid + 1, hi)
             ELSE LowerCount(s, t, lo, mid - 1)

RECURSIVE Merge(_, _)
Merge(a, b) ==
    IF Len(a) = 0 THEN b
    ELSE IF Len(b) = 0 THEN a
    ELSE IF a[Len(a)].timestamp <= b[1].timestamp THEN a \o b
    ELSE IF b[Len(b)].timestamp < a[1].timestamp THEN b \o a
    ELSE LET m == (Len(a) + 1) \div 2
             p == LowerCount(b, a[m].timestamp, 1, Len(b))
         IN  Merge(SubSeq(a, 1, m - 1), SubSeq(b, 1, p))
                 \o <<a[m]>>
                 \o Merge(SubSeq(a, m + 1, Len(a)), SubSeq(b, p + 1, Len(b)))

RECURSIVE SortByTimestamp(_)
SortByTimestamp(df) ==
    IF Len(df) <= 1 THEN df
    ELSE LET h == Len(df) \div 2
         IN  CHOOSE r \in {Merge(a, b) : a \in {SortByTimestamp(SubSeq(df, 1, h))},
                                         b \in {SortByTimestamp(SubSeq(df, h + 1, Len(df)))}} :
                 TRUE

HasTies(s) == \E i \in 1..(Len(s) - 1) : s[i].timestamp = s[i + 1].timestamp

UpperCount(s, t) == LowerCount(s, t + 1, 1, Len(s))

Orderings(g) ==
    {SubSeq([i \in 1..Len(g) |-> g[p[i]]], 1, Len(g)) : p \in Permutations(1..Len(g))}

RECURSIVE TieOrders(_)
TieOrders(s) ==
    IF ~HasTies(s) THEN {s}
    ELSE LET i == CHOOSE j \in 1..(Len(s) - 1) : s[j].timestamp = s[j + 1].timestamp
             lo == LowerCount(s, s[i].timestamp, 1, Len(s))
             hi == UpperCount(s, s[i].timestamp)
         IN  UNION {{x \o g \o y : x \in TieOrders(before),
                                   g \in Orderings(tied),
                                   y \in TieOrders(after)} :
                    before \in {SubSeq(s, 1, lo)},
                    tied \in {SubSeq(s, lo + 1, hi)},
                    after \in {SubSeq(s, hi + 1, Len(s))}}

sort_values(df) ==
    UNION {TieOrders(s) : s \in {SortByTimestamp(df)}}

\* The provider (OANDA InstrumentsCandles, lines 52-54).  A response either
\* raises (the request failed, or the response was malformed) or holds a list
\* of candles in ascending time order, at most `count` of them.
Raise == [ok |-> FALSE, candles |-> <<>>]
Response(data) == [ok |-> TRUE, candles |-> data]

\* (the prices of an incomplete candle are never read: line 69 filters first)
Candles ==
    {c \in [time : 1..MaxTime, complete : BOOLEAN, mid_c : Prices] :
        ~c.complete => c.mid_c = 1}

Ascending(data) == \A i \in 1..(Len(data) - 1) : data[i].time < data[i + 1].time

ShortResponses(b) ==
    {Raise} \cup
    {Response(d) : d \in {x \in UNION {[1..n -> Candles] : n \in 0..Min(b, MaxResp)} :
                               Ascending(x)}}

\* A provider with a long history: a page of exactly b consecutive candles
\* ending just before the boundary, the newest one complete or in progress.
Now == 4 * PageLimit

FullPage(b, to, lastComplete) ==
    LET base == IF to = None THEN Now ELSE to[1]
    IN  [i \in 1..b |-> [time |-> base - b + i - 1,
                         complete |-> (i < b \/ lastComplete),
                         mid_c |-> 1]]

FullResponses(b, to) ==
    {Raise, Response(<<>>), Response(FullPage(1, to, TRUE)),
     Response(FullPage(b, to, TRUE)), Response(FullPage(b, to, FALSE))}

\* (mutant: the pages fetched before the failure are returned)
except_result_partial(frames) == concat(frames)

\* lines 87-89: the except clause returns pd.DataFrame(), whatever the pages
\* fetched so far
except_result(frames) == <<>>

\* lines 41-76: one iteration of the paging loop, with the provider's response
FetchPage(resp) ==
    /\ pc = "loop"
    /\ remaining > 0
    /\ Len(requests) < MaxRequests
    /\ requests' = Append(requests,
                          [count |-> batch_size(remaining), to |-> to_time,
                           ok |-> resp.ok, data |-> resp.candles])
    /\ IF ~resp.ok
       THEN \* lines 87-89
            /\ pc' = "done"
            /\ df_all' = except_result(all_data)
            /\ failed' = TRUE
            /\ UNCHANGED <<remaining, to_time, all_data>>
       ELSE IF Len(resp.candles) = 0
       THEN \* lines 56-57
            /\ pc' = "break"
            /\ UNCHANGED <<remaining, to_time, all_data, df_all, failed>>
       ELSE /\ all_data' = Append(all_data, to_frame(resp.candles))
            /\ to_time' = next_to_time(resp.candles)
            /\ remaining' = next_remaining(remaining, batch_size(remaining))
            /\ pc' = "loop"
            /\ UNCHANGED <<df_all, failed>>
    /\ UNCHANGED <<candles, calls, df_in, df_mid, df_out>>

\* lines 78-85, and 87-89 when the concatenation has no "timestamp" column
\* (every page frame was built from an empty list of rows): KeyError
Finish ==
    /\ \/ pc = "loop" /\ remaining <= 0
       \/ pc = "break"
    /\ pc' = "done"
    /\ IF Len(all_data) > 0
       THEN LET cat == concat(all_data)
            IN  IF Len(cat) = 0
                THEN df_all' = except_result(all_data) /\ failed' = TRUE
                ELSE df_all' \in sort_values(cat) /\ failed' = FALSE
       ELSE df_all' = <<>> /\ failed' = FALSE
    /\ UNCHANGED <<candles, remaining, to_time, all_data, requests,
                   calls, df_in, df_mid, df_out>>

FetchStart(counts) ==
    /\ candles \in counts
    /\ remaining = candles
    /\ pc = "loop"
    /\ to_time = None
    /\ all_data = <<>>
    /\ requests = <<>>
    /\ df_all = <<>>
    /\ failed = FALSE

PipeIdle ==
    /\ calls = 0
    /\ df_in = <<>>
    /\ df_mid = <<>>
    /\ df_out = <<>>

\* the counts fetch_live_data is called with
Counts == {-1, 0} \cup 1..MaxResp \cup {PageLimit + 1, 2 * PageLimit + 1}

Init == FetchStart(Counts) /\ PipeIdle

Next ==
    \/ \E resp \in ShortResponses(batch_size(remaining)) : FetchPage(resp)
    \/ Finish

Spec == Init /\ [][Next]_vars

\* the function body runs to its return: each enabled step is eventually taken
SpecFair == Spec /\ WF_vars(Next)

FullCounts == {PageLimit, PageLimit + 1, 2 * PageLimit, 12000}

InitFull == FetchStart(FullCounts) /\ PipeIdle

NextFull ==
    \/ \E resp \in FullResponses(batch_size(remaining), to_time) : FetchPage(resp)
    \/ Finish

SpecFull == InitFull /\ [][NextFull]_vars

FetchIdle ==
    /\ pc = "idle"
    /\ candles = 0
    /\ remaining = 0
    /\ to_time = None
    /\ all_data = <<>>
    /\ requests = <<>>
    /\ df_all = <<>>
    /\ failed = FALSE

(***************************************************************************)
(* clean_data, src/src/data_preprocessing.py                               *)
(***************************************************************************)
\* (mutant: no row is dropped)
drop_duplicates_none(df) == df

\* line 17: drop_duplicates(subset="timestamp"): a row is dropped when an
\* earlier row of the frame has its timestamp (keep="first")
drop_duplicates(df) ==
    LET keep == {i \in 1..Len(df) : \A j \in 1..(i - 1) : df[j].timestamp # df[i].timestamp}
        Nth(k) == CHOOSE i \in keep : Cardinality({j \in keep : j < i}) = k - 1
    IN  [k \in 1..Cardinality(keep) |-> df[Nth(k)]]

\* line 20: fillna(method="ffill"): a missing value takes the value of the row
\* before it, already filled
RECURSIVE ffill(_)
ffill(df) ==
    IF Len(df) <= 1 THEN df
    ELSE LET head == ffill(SubSeq(df, 1, Len(df) - 1))
             last == df[Len(df)]
         IN  Append(head,
                    IF IsNaN(last.close)
                    THEN [last EXCEPT !.close = head[Len(head)].close]
                    ELSE last)

\* (mutant: no backward fill)
bfill_none(df) == df

\* line 20: fillna(method="bfill"): a missing value takes the value of the row
\* after it, already filled
RECURSIVE bfill(_)
bfill(df) ==
    IF Len(df) <= 1 THEN df
    ELSE LET tail == bfill(Tail(df))
             first == df[1]
         IN  <<IF IsNaN(first.close)
               THEN [first EXCEPT !.close = tail[1].close]
               ELSE first>> \o tail

\* lines 14-22
clean_data ==
    /\ calls < MaxCalls
    /\ LET arg == IF calls = 0 THEN df_in ELSE df_out
       IN  /\ df_in' = arg
           /\ \E sorted \in sort_values(arg) :
                 /\ df_mid' = drop_duplicates(sorted)
                 /\ df_out' = bfill(ffill(drop_duplicates(sorted)))
    /\ calls' = calls + 1
    /\ UNCHANGED fetchVars

\* the frames clean_data is called with: any rows, in any order, with
\* repeated timestamps and missing values
CleanRows == [timestamp : 1..MaxStamp, close : {NaN} \cup {Float(v) : v \in Prices}]

CleanInputs == UNION {[1..n -> CleanRows] : n \in 0..MaxRows}

InitClean ==
    /\ FetchIdle
    /\ calls = 0
    /\ df_in \in CleanInputs
    /\ df_mid = <<>>
    /\ df_out = <<>>

NextClean == clean_data

SpecClean == InitClean /\ [][NextClean]_vars

(***************************************************************************)
(* add_target, src/src/data_preprocessing.py                               *)
(***************************************************************************)
\* line 75: df['close'].shift(-1): each row gets the next row's value, the
\* last row NaN
shift_back(df, i) == IF i < Len(df) THEN df[i + 1].close ELSE NaN

\* (mutant: greater or equal)
ge(a, b) == ~IsNaN(a) /\ ~IsNaN(b) /\ a[1] >= b[1]

\* line 75: a > b on floats: False when either side is NaN
gt(a, b) == ~IsNaN(a) /\ ~IsNaN(b) /\ a[1] > b[1]

\* line 75: .astype(int)
astype_int(b) == IF b THEN 1 ELSE 0

\* lines 74-76
add_target ==
    /\ calls = 0
    /\ df_out' = [i \in 1..Len(df_in) |->
                    [timestamp |-> df_in[i].timestamp,
                     close |-> df_in[i].close,
                     target |-> astype_int(gt(shift_back(df_in, i), df_in[i].close))]]
    /\ calls' = 1
    /\ UNCHANGED <<df_in, df_mid>>
    /\ UNCHANGED fetchVars

\* frames of rows in index order, the closes any floats or NaN
TargetCloses == {NaN} \cup {Float(v) : v \in 1..MaxCloseValue}

TargetInputs ==
    {[i \in 1..Len(cs) |-> [timestamp |-> i, close |-> cs[i]]] :
        cs \in UNION {[1..n -> TargetCloses] : n \in 0..MaxTargetRows}}

InitTarget ==
    /\ FetchIdle
    /\ calls = 0
    /\ df_in \in TargetInputs
    /\ df_mid = <<>>
    /\ df_out = <<>>

NextTarget == add_target

SpecTarget == InitTarget /\ [][NextTarget]_vars

(***************************************************************************)
(* add_indicators, src/src/data_preprocessing.py (SMA50 and SMA200; RSI,   *)
(* MACD and ATR are float formulas no property here is about)              *)
(***************************************************************************)
\* line 37: rolling(50)
SMA50Window == 50
\* line 38: rolling(200)
SMA200Window == 200

\* The mean sum/nobs, kept as the exact fraction <<sum, nobs>>
Mean(sum, nobs) == <<sum, nobs>>

\* rolling(w): the window's running sum and count of non-NaN values after row
\* i: row i enters the window, row i - w leaves it
RECURSIVE roll(_, _, _)
roll(df, w, i) ==
    IF i = 0 THEN [sum |-> 0, nobs |-> 0]
    ELSE LET prev == roll(df, w, i - 1)
             new == df[i].close
             old == IF i > w THEN df[i - w].close ELSE NaN
         IN  [sum |-> prev.sum + (IF IsNaN(new) THEN 0 ELSE new[1])
                               - (IF IsNaN(old) THEN 0 ELSE old[1]),
              nobs |-> prev.nobs + (IF IsNaN(new) THEN 0 ELSE 1)
                                 - (IF IsNaN(old) THEN 0 ELSE 1)]

\* (mutant: min_periods = 1)
rolling_mean_min1(df, w, i) ==
    LET acc == roll(df, w, i)
    IN  IF acc.nobs >= 1 THEN Mean(acc.sum, acc.nobs) ELSE NaN

\* rolling(w).mean(): min_periods defaults to the window size
rolling_mean(df, w, i) ==
    LET acc == roll(df, w, i)
    IN  IF acc.nobs >= w THEN Mean(acc.sum, acc.nobs) ELSE NaN

\* lines 34-38, 64
add_indicators ==
    /\ calls = 0
    /\ df_out' = [i \in 1..Len(df_in) |->
                    [timestamp |-> df_in[i].timestamp,
                     close |-> df_in[i].close,
                     SMA50 |-> rolling_mean(df_in, SMA50Window, i),
                     SMA200 |-> rolling_mean(df_in, SMA200Window, i)]]
    /\ calls' = 1
    /\ UNCHANGED <<df_in, df_mid>>
    /\ UNCHANGED fetchVars

\* frames of about 50 rows in timestamp order: periodic closes, at most one of
\* them missing
Series(n, step, period, nanAt) ==
    [i \in 1..n |-> [timestamp |-> i,
                     close |-> IF i = nanAt THEN NaN ELSE Float(1 + step * (i % period))]]

IndicatorInputs ==
    {Series(n, step, period, nanAt) :
        n \in (SMA50Window - MaxExtra)..(SMA50Window + MaxExtra),
        step \in 0..MaxStep,
        period \in 1..MaxPeriod,
        nanAt \in {0, 1, SMA50Window}}

InitIndicators ==
    /\ FetchIdle
    /\ calls = 0
    /\ df_in \in IndicatorInputs
    /\ df_mid = <<>>
    /\ df_out = <<>>

NextIndicators == add_indicators

SpecIndicators == InitIndicators /\ [][NextIndicators]_vars

(***************************************************************************)
(* Properties of fetch_live_data                                           *)
(***************************************************************************)
SomeRaised == \E i \in 1..Len(requests) : ~requests[i].ok

FirstEmpty == Len(requests) >= 1 /\ requests[1].ok /\ Len(requests[1].data) = 0

CompleteIn(data) == Len(SelectSeq(data, IsComplete))

RECURSIVE CompleteReturned(_)
CompleteReturned(n) ==
    IF n = 0 THEN 0 ELSE CompleteReturned(n - 1) + CompleteIn(requests[n].data)

RECURSIVE Requested(_)
Requested(n) == IF n = 0 THEN 0 ELSE Requested(n - 1) + requests[n].count

CeilDiv(n, d) == (n + d - 1) \div d

\* C1 as stated: for a positive count the returned frame has at most `count`
\* rows, and it is empty only if the first request returned no candles or a
\* request raised.
C1_AsStated ==
    (pc = "done" /\ candles > 0) =>
        /\ Len(df_all) <= candles
        /\ (Len(df_all) = 0 => (FirstEmpty \/ SomeRaised))

\* C1 (amended): for a positive count the returned frame has at most `count`
\* rows, and it is empty only if no request returned a complete candle or a
\* request raised.
C1_LengthBound ==
    (pc = "done" /\ candles > 0) =>
        /\ Len(df_all) <= candles
        /\ (Len(df_all) = 0 => (CompleteReturned(Len(requests)) = 0 \/ SomeRaised))

C1_Witness ==
    /\ pc = "done"
    /\ candles > PageLimit
    /\ Len(requests) >= 2
    /\ ~SomeRaised
    /\ Len(requests[1].data) > 0
    /\ CompleteReturned(Len(requests)) = 0
    /\ Len(df_all) = 0

\* C2: the call never raises to its caller; when a request fails, also after
\* earlier pages succeeded, it returns the empty frame and nothing of the
\* earlier pages.
C2_FailureGivesEmpty ==
    /\ pc \in {"loop", "break", "done"}
    /\ (pc = "done" /\ SomeRaised) => (df_all = <<>> /\ failed)

C2_Witness ==
    /\ pc = "done"
    /\ Len(requests) >= 2
    /\ ~requests[Len(requests)].ok
    /\ Len(concat(all_data)) > 0
    /\ df_all = <<>>

\* C10: the first request has no end boundary, every later one has the earliest
\* timestamp of the response before it; the returned rows are exactly the
\* complete candles, in ascending timestamp order.
MinTime(data) ==
    CHOOSE t \in {data[j].time : j \in 1..Len(data)} :
        \A j \in 1..Len(data) : t <= data[j].time

FromCompleteCandle(row) ==
    \E i \in 1..Len(requests) : \E j \in 1..Len(requests[i].data) :
        /\ requests[i].data[j].complete
        /\ requests[i].data[j].time = row.timestamp
        /\ Float(requests[i].data[j].mid_c) = row.close

C10_BoundariesAndRows ==
    /\ \A i \in 1..Len(requests) :
          IF i = 1 THEN requests[i].to = None
          ELSE requests[i].to = Some(MinTime(requests[i - 1].data))
    /\ pc = "done" =>
          /\ \A k \in 1..Len(df_all) : FromCompleteCandle(df_all[k])
          /\ ~failed => Len(df_all) = CompleteReturned(Len(requests))
          /\ \A k \in 1..(Len(df_all) - 1) : df_all[k].timestamp <= df_all[k + 1].timestamp

C10_Witness ==
    /\ pc = "done"
    /\ Len(requests) = 3
    /\ Len(requests[1].data) = 2
    /\ Len(requests[2].data) >= 1
    /\ requests[1].to = None
    /\ requests[2].to = Some(requests[1].data[1].time)
    /\ requests[2].to # requests[3].to
    /\ Len(df_all) >= 2
    /\ Len(df_all) < Len(requests[1].data) + Len(requests[2].data) + Len(requests[3].data)
    /\ df_all[1].timestamp < df_all[Len(df_all)].timestamp

\* C3: when no response is shorter than the batch size asked for, a fetch of N
\* candles issues exactly ceil(N/5000) requests, request i asking for
\* min(N - 5000(i-1), 5000) candles, N in total; N = 12000 gives 5000, 5000, 2000.
NeverShort ==
    \A i \in 1..Len(requests) :
        requests[i].ok /\ Len(requests[i].data) = requests[i].count

C3_RequestSizes ==
    (pc = "done" /\ candles > 0 /\ NeverShort) =>
        /\ Len(requests) = CeilDiv(candles, 5000)
        /\ \A i \in 1..Len(requests) :
              requests[i].count = Min(candles - 5000 * (i - 1), 5000)
        /\ Requested(Len(requests)) = candles
        /\ candles = 12000 =>
              <<requests[1].count, requests[2].count, requests[3].count>> = <<5000, 5000, 2000>>

C3_Witness ==
    /\ pc = "done"
    /\ candles = 12000
    /\ NeverShort
    /\ Len(requests) = 3
    /\ Len(df_all) = 11999

\* C9: the paging loop terminates; a request is followed by another only if it
\* returned candles and the counts requested so far are below the target, and
\* the loop is left only on a reached target, an empty response or a failure.
RequestedSoFar == Requested(Len(requests))

OnlyContinuesWhenNeeded ==
    \A i \in 1..(Len(requests) - 1) :
        /\ requests[i].ok
        /\ Len(requests[i].data) > 0
        /\ Requested(i) < candles

StopsOnEvent ==
    pc \in {"break", "done"} =>
        \/ RequestedSoFar >= candles
        \/ /\ Len(requests) > 0
           /\ \/ ~requests[Len(requests)].ok
              \/ Len(requests[Len(requests)].data) = 0

C9_Terminates ==
    /\ <>(pc = "done")
    /\ [](OnlyContinuesWhenNeeded /\ StopsOnEvent)
    /\ [](Len(requests) * 5000 < candles + 5000 \/ Len(requests) = 0)
    /\ [][pc = "done" => requests' = requests]_vars

C9_Witness ==
    /\ pc = "done"
    /\ Len(requests) = 2
    /\ candles > 2 * PageLimit
    /\ Len(requests[2].data) = 0
    /\ Len(df_all) > 0

(***************************************************************************)
(* Properties of the feature pipeline                                      *)
(***************************************************************************)
\* C4 as stated: target is 1 exactly when the next close is strictly greater,
\* else 0, and the final row's target is undefined (neither 0 nor 1).
TargetRule(i) ==
    df_out[i].target =
        IF /\ ~IsNaN(df_in[i].close)
           /\ ~IsNaN(df_in[i + 1].close)
           /\ df_in[i + 1].close[1] > df_in[i].close[1]
        THEN 1 ELSE 0

ClosesOf(df) == [i \in 1..Len(df) |-> df[i].close]

TargetsOf(df) == [i \in 1..Len(df) |-> df[i].target]

StrictlyIncreasing(df) ==
    \A i \in 1..(Len(df) - 1) : df[i].timestamp < df[i + 1].timestamp

C5_SortedAndIdempotent ==
    /\ calls >= 1 => StrictlyIncreasing(df_out)
    /\ calls >= 2 => df_out = df_in

C5_Witness ==
    /\ calls = 2
    /\ Len(df_out) = 3
    /\ df_out = df_in
    /\ df_out[1].close # df_out[3].close

\* C6: of the input rows sharing a timestamp, clean_data keeps exactly one, the
\* one earliest in the input order.
FirstWith(df, t) ==
    df[CHOOSE i \in 1..Len(df) :
           /\ df[i].timestamp = t
           /\ \A j \in 1..(i - 1) : df[j].timestamp # t]

C6_FirstOccurrenceKept ==
    calls = 1 =>
        \A i \in 1..Len(df_in) :
            /\ Cardinality({k \in 1..Len(df_mid) :
                               df_mid[k].timestamp = df_in[i].timestamp}) = 1
            /\ \E k \in 1..Len(df_mid) : df_mid[k] = FirstWith(df_in, df_in[i].timestamp)

\* C7 as stated: the close column of the output has no missing value unless
\* every close of the input was missing; a missing value is replaced by the
\* nearest earlier valid value, a leading one by the first later valid value.
Valid(df) == {i \in 1..Len(df) : ~IsNaN(df[i].close)}

Largest(S) == CHOOSE x \in S : \A y \in S : y <= x

Smallest(S) == CHOOSE x \in S : \A y \in S : x <= y

ExpectedFill(k) ==
    LET earlier == {j \in Valid(df_mid) : j <= k}
        later == {j \in Valid(df_mid) : j > k}
    IN  IF earlier # {} THEN df_mid[Largest(earlier)].close
        ELSE IF later # {} THEN df_mid[Smallest(later)].close
        ELSE NaN

FillRule ==
    /\ Len(df_out) = Len(df_mid)
    /\ \A k \in 1..Len(df_out) :
          /\ df_out[k].timestamp = df_mid[k].timestamp
          /\ df_out[k].close = ExpectedFill(k)

C7_AsStated ==
    calls = 1 =>
        /\ Valid(df_in) # {} => Valid(df_out) = 1..Len(df_out)
        /\ FillRule

\* C7 (amended): the close column of the output has no missing value unless
\* every close of the rows kept by the de-duplication was missing; a missing
\* value is replaced by the nearest earlier valid value of the kept rows, a
\* leading one by the first later valid value.
C7_Filled ==
    calls = 1 =>
        /\ Valid(df_mid) # {} => Valid(df_out) = 1..Len(df_out)
        /\ FillRule

C7_Witness ==
    /\ calls = 1
    /\ Len(df_mid) = 3
    /\ Valid(df_mid) = {2}
    /\ Valid(df_out) = {1, 2, 3}

\* C8: on a frame of at least 50 rows with defined closes, SMA50 is undefined
\* on rows 1..49 and from row 50 on is the mean of the row's close and the 49
\* closes before it; rows keep their number and order.
RECURSIVE SumCloses(_, _, _)
SumCloses(df, lo, hi) ==
    IF lo > hi THEN 0 ELSE df[hi].close[1] + SumCloses(df, lo, hi - 1)

C8_SMA50 ==
    (calls = 1 /\ Len(df_in) >= 50 /\ Valid(df_in) = 1..Len(df_in)) =>
        /\ Len(df_out) = Len(df_in)
        /\ \A i \in 1..Len(df_out) :
              /\ df_out[i].timestamp = df_in[i].timestamp
              /\ df_out[i].close = df_in[i].close
              /\ i <= 49 => IsNaN(df_out[i].SMA50)
              /\ i >= 50 =>
                    /\ ~IsNaN(df_out[i].SMA50)
                    /\ df_out[i].SMA50[2] > 0
                    /\ df_out[i].SMA50[1] * 50 =
                           df_out[i].SMA50[2] * SumCloses(df_in, i - 49, i)

C8_Witness ==
    /\ calls = 1
    /\ Len(df_in) = 52
    /\ Valid(df_in) = 1..Len(df_in)
    /\ IsNaN(df_out[49].SMA50)
    /\ ~IsNaN(df_out[50].SMA50)
    /\ ~IsNaN(df_out[52].SMA50)
    /\ df_out[50].SMA50 # df_out[52].SMA50

====
